---- MODULE Spec2Model ----
(***************************************************************************)
(* The chat router of shark-chat-js (packages/server/routers/chat.ts):     *)
(* send, messages (history), update, delete, read, checkout and type,      *)
(* as concurrent requests over the message store, the last-read store and  *)
(* the realtime publish log.  Every await of a handler is one step.        *)
(***************************************************************************)
EXTENDS Integers, Sequences, FiniteSets, TLC

\* ------------------------------------------------------------------ bounds
\* Requests started in one behaviour.
MaxReqs == 2
\* Failures (a rejected store statement, publish or notifier call) injected.
MaxFaults == 1
\* Ticks of the clock that stamps messages and last-read cursors.
MaxClock == 1

\* count: z.number().min(0).max(50).default(50)
MaxCount == 50

\* Concurrent request slots.
Procs == {"p1", "p2"}

\* ------------------------------------------------------------ fixed data
\* Session identities.  "x" holds a session but has no row in users.
Identities == {"a", "b", "c", "x"}
UserRows == {"a", "b", "c"}

DmChannels == {"dm"}
GroupChannels == {"g1", "g2"}
Channels == DmChannels \cup GroupChannels
\* Channel ids a request may name; "zz" names no channel.
ChannelIds == Channels \cup {"zz"}

\* groups.owner_id
GroupOwner == [g \in GroupChannels |-> IF g = "g1" THEN "a" ELSE "c"]

Members(ch) ==
    CASE ch = "dm" -> {"a", "b"}
      [] ch = "g1" -> {"a", "c"}
      [] ch = "g2" -> {"b", "c"}
      [] OTHER -> {}

\* The other participant of a direct-message channel (data.to_user_id).
ToUser(ch, u) == CHOOSE v \in Members(ch) : v # u

\* Message contents, as token sequences.
Empty == <<>>
Hi == <<"hi">>
Shark == <<"@Shark", "hi">>
Contents == {Empty, Hi, Shark}

\* input.content.startsWith("@Shark")
StartsWithShark(content) == Len(content) > 0 /\ content[1] = "@Shark"

NoUser == "null"
NoChannel == "null"

\* ---------------------------------------------------------------- state
VARIABLES
    messages,        \* rows of the messages table
    attachments,     \* ids of the rows of the attachments table
    nextId,          \* auto-increment of messages.id
    nextAttId,       \* ids handed out by createId()
    last_message_id, \* messageChannels.last_message_id (0: null)
    dm_open,         \* directMessageInfos.open
    last_read,       \* the last-read store: (channel, user) -> timestamp, -1: absent
    published,       \* publish calls issued, in order
    notified,        \* calls of the bot-mention notifier (onReceiveMessage)
    now,             \* the clock
    req,             \* the request each slot is handling
    reqs,            \* requests started
    faults           \* failures injected

store == <<messages, attachments, nextId, nextAttId, last_message_id, dm_open>>
vars == <<messages, attachments, nextId, nextAttId, last_message_id, dm_open,
          last_read, published, notified, now, req, reqs, faults>>

NoMessage ==
    [id |-> 0, author_id |-> NoUser, content |-> Empty, channel_id |-> NoChannel,
     attachment_id |-> 0, reply_id |-> 0, timestamp |-> 0,
     reply_message |-> <<>>, reply_user |-> NoUser, author |-> NoUser]

Idle ==
    [op |-> "none", pc |-> "idle", user |-> NoUser, channelId |-> NoChannel,
     content |-> Empty, attachment |-> FALSE, reply |-> 0, messageId |-> 0,
     count |-> 0, cursorType |-> "before", cursor |-> -1,
     type |-> "none", att |-> 0, message_id |-> 0, message |-> NoMessage,
     is_new_dm |-> FALSE, committed |-> FALSE, sent |-> FALSE, read |-> FALSE, rejected |-> FALSE,
     error |-> "none", result |-> <<>>, old |-> -1]

Init ==
    /\ messages = {}
    /\ attachments = {}
    /\ nextId = 1
    /\ nextAttId = 1
    /\ last_message_id = [ch \in Channels |-> 0]
    /\ dm_open = [ch \in DmChannels |-> FALSE]
    /\ last_read = [k \in ChannelIds \X Identities |-> -1]
    /\ published = <<>>
    /\ notified = {}
    /\ now = 0
    /\ req = [p \in Procs |-> Idle]
    /\ reqs = 0
    /\ faults = 0

\* ------------------------------------------------------------- helpers
Row(id) == CHOOSE m \in messages : m.id = id
HasRow(id) == \E m \in messages : m.id = id

\* A publish call: the event, the topic address, the payload's message id,
\* channel id and user, and whether the transport accepted it.
Event(type, to, id, ch, u, ok) ==
    [type |-> type, to |-> to, id |-> id, channel_id |-> ch, user |-> u, ok |-> ok]

\* A slot takes a request when it holds none or has answered the last one.
Answered(p) == req[p].pc \in {"idle", "done", "failed"}

\* A request takes the first slot that holds none or has answered its last one.
Free(p) ==
    /\ Answered(p)
    /\ p = "p1" \/ ~Answered("p1")

\* A call into the store, the transport or the notifier either succeeds or rejects.
CanFail == faults < MaxFaults

Fail(p, code) == [req[p] EXCEPT !.pc = "failed", !.error = code]

\* Permission Resolver (../utils/permissions): the channel kind, or the error.
checkChannelPermissions(ch, u) ==
    IF ch \notin Channels THEN "NOT_FOUND"
    ELSE IF u \notin Members(ch) THEN "FORBIDDEN"
    ELSE IF ch \in DmChannels THEN "dm" ELSE "group"

\* .refine(({ content, attachment }) => content.length !== 0 || attachment != null)
refine(content, attachment) == Len(content) # 0 \/ attachment

Tick ==
    /\ now < MaxClock
    /\ now' = now + 1
    /\ UNCHANGED <<store, last_read, published, notified, req, reqs, faults>>

\* ------------------------------------------------------------------ send
\* Lines 35-55: input validation, then checkChannelPermissions, before any write.
SendEnter(p, r0, valid, perm) ==
    /\ Free(p)
    /\ reqs' = reqs + 1
    /\ req' = [req EXCEPT ![p] =
           IF ~valid THEN [r0 EXCEPT !.pc = "failed", !.error = "BAD_REQUEST"]
           ELSE IF perm \in {"NOT_FOUND", "FORBIDDEN"}
           THEN [r0 EXCEPT !.pc = "failed", !.error = perm]
           ELSE [r0 EXCEPT !.type = perm,
                           !.pc = IF r0.attachment THEN "attach" ELSE "insert"]]
    /\ UNCHANGED <<store, last_read, published, notified, now, faults>>

SendInput(u, ch, content, attachment, reply) ==
    [Idle EXCEPT !.op = "send", !.user = u, !.channelId = ch, !.content = content,
                 !.attachment = attachment, !.reply = reply]

\* Variant: the handler with the input refine of lines 44-48 left out.
SendStart_NoRefine(p, u, ch, content, attachment, reply) ==
    SendEnter(p, SendInput(u, ch, content, attachment, reply),
              TRUE, checkChannelPermissions(ch, u))

\* Variant: the handler reading the channel kind without the membership test.
SendStart_NoPermission(p, u, ch, content, attachment, reply) ==
    SendEnter(p, SendInput(u, ch, content, attachment, reply),
              refine(content, attachment),
              IF ch \notin Channels THEN "NOT_FOUND"
              ELSE IF ch \in DmChannels THEN "dm" ELSE "group")

SendStart(p, u, ch, content, attachment, reply) ==
    SendEnter(p, SendInput(u, ch, content, attachment, reply),
              refine(content, attachment), checkChannelPermissions(ch, u))

\* insertAttachment (lines 362-377) with a non-null attachment: a fresh id, one row.
\* The statement is issued on db, not on the transaction's handle (the callback
\* of line 56 takes none): it runs outside the transaction that db.transaction
\* opened on a session of its own (results carry insertId and rowsAffected,
\* lines 68 and 117, the serverless driver's shape), so the row is in the table
\* as soon as the statement returns.
SendAttach(p) ==
    /\ req[p].op = "send" /\ req[p].pc = "attach"
    /\ attachments' = attachments \cup {nextAttId}
    /\ nextAttId' = nextAttId + 1
    /\ req' = [req EXCEPT ![p].att = nextAttId, ![p].pc = "insert"]
    /\ UNCHANGED <<messages, nextId, last_message_id, dm_open, last_read,
                   published, notified, now, reqs, faults>>

\* Variant: "message sent" published from inside the transaction body, right
\* after the insert.
SendInsert_PublishEarly(p) ==
    /\ req[p].op = "send" /\ req[p].pc = "insert"
    /\ messages' = messages \cup
           {[id |-> nextId, author_id |-> req[p].user, content |-> req[p].content,
             channel_id |-> req[p].channelId, attachment_id |-> req[p].att,
             reply_id |-> req[p].reply, timestamp |-> now]}
    /\ nextId' = nextId + 1
    /\ published' = Append(published,
           Event("message_sent", req[p].channelId, nextId, req[p].channelId,
                 req[p].user, TRUE))
    /\ req' = [req EXCEPT ![p].message_id = nextId, ![p].pc = "reread"]
    /\ UNCHANGED <<attachments, nextAttId, last_message_id, dm_open, last_read,
                   notified, now, reqs, faults>>

\* Lines 59-68: insert the message row; the store assigns id and timestamp.
SendInsert(p) ==
    /\ req[p].op = "send" /\ req[p].pc = "insert"
    /\ messages' = messages \cup
           {[id |-> nextId, author_id |-> req[p].user, content |-> req[p].content,
             channel_id |-> req[p].channelId, attachment_id |-> req[p].att,
             reply_id |-> req[p].reply, timestamp |-> now]}
    /\ nextId' = nextId + 1
    /\ req' = [req EXCEPT ![p].message_id = nextId, ![p].pc = "reread"]
    /\ UNCHANGED <<attachments, nextAttId, last_message_id, dm_open, last_read,
                   published, notified, now, reqs, faults>>

\* The select of lines 73-90 for one row: inner join users, left join the reply
\* message (by id alone) and its author.
Hydrate(m) ==
    [id |-> m.id, author_id |-> m.author_id, content |-> m.content,
     channel_id |-> m.channel_id, attachment_id |-> m.attachment_id,
     reply_id |-> m.reply_id, timestamp |-> m.timestamp,
     reply_message |-> IF HasRow(m.reply_id) THEN <<Row(m.reply_id).content>> ELSE <<>>,
     reply_user |-> IF HasRow(m.reply_id) /\ Row(m.reply_id).author_id \in UserRows
                    THEN Row(m.reply_id).author_id ELSE NoUser,
     author |-> m.author_id]

\* Variant: the reply message inner-joined, so that a row whose parent is gone
\* drops out of the select and requireOne throws.
SendReread_InnerJoin(p) ==
    /\ req[p].op = "send" /\ req[p].pc = "reread"
    /\ req' = [req EXCEPT ![p] =
           IF /\ HasRow(req[p].message_id)
              /\ Row(req[p].message_id).author_id \in UserRows
              /\ req[p].reply # 0 => HasRow(req[p].reply)
           THEN [req[p] EXCEPT !.message = Hydrate(Row(req[p].message_id)),
                               !.pc = "pointer"]
           ELSE Fail(p, "INTERNAL_SERVER_ERROR")]
    /\ UNCHANGED <<store, last_read, published, notified, now, reqs, faults>>

\* Lines 73-91: re-read the inserted row; requireOne throws when it is gone.
SendReread(p) ==
    /\ req[p].op = "send" /\ req[p].pc = "reread"
    /\ req' = [req EXCEPT ![p] =
           IF HasRow(req[p].message_id) /\ Row(req[p].message_id).author_id \in UserRows
           THEN [req[p] EXCEPT !.message = Hydrate(Row(req[p].message_id)),
                               !.pc = "pointer"]
           ELSE Fail(p, "INTERNAL_SERVER_ERROR")]
    /\ UNCHANGED <<store, last_read, published, notified, now, reqs, faults>>

\* Lines 93-98 (and, for a group channel, the return of lines 120-126).
SendPointer(p) ==
    /\ req[p].op = "send" /\ req[p].pc = "pointer"
    /\ last_message_id' =
           [last_message_id EXCEPT ![req[p].message.channel_id] = req[p].message.id]
    /\ req' = [req EXCEPT ![p].pc = IF req[p].type = "dm" THEN "dmflag" ELSE "fanout",
                          ![p].committed = (req[p].type # "dm")]
    /\ UNCHANGED <<messages, attachments, nextId, nextAttId, dm_open, last_read,
                   published, notified, now, reqs, faults>>

\* rowsAffected of: update directMessageInfos set open = true
\*                  where channel_id = ? and open = false   (lines 103-116)
\* Variant: the update without "and open = false", counting the matched row.
rowsAffected_Unconditional(ch) == 1

rowsAffected(ch) == IF dm_open[ch] = FALSE THEN 1 ELSE 0

\* Lines 102-126: the conditional update, is_new_dm, the transaction returns.
SendDmFlag(p) ==
    /\ req[p].op = "send" /\ req[p].pc = "dmflag"
    /\ dm_open' = [dm_open EXCEPT ![req[p].channelId] = TRUE]
    /\ req' = [req EXCEPT ![p].is_new_dm = (rowsAffected(req[p].channelId) # 0),
                          ![p].committed = TRUE,
                          ![p].pc = IF rowsAffected(req[p].channelId) # 0
                                    THEN "open_dm" ELSE "fanout"]
    /\ UNCHANGED <<messages, attachments, nextId, nextAttId, last_message_id,
                   last_read, published, notified, now, reqs, faults>>

\* Lines 128-134: publish "channel opened" to the other side; a rejection
\* ends the request.
SendOpenDm(p) ==
    /\ req[p].op = "send" /\ req[p].pc = "open_dm"
    /\ \E ok \in BOOLEAN :
         /\ ok \/ CanFail
         /\ faults' = IF ok THEN faults ELSE faults + 1
         /\ published' = Append(published,
                Event("open_dm", ToUser(req[p].channelId, req[p].user), 0,
                      req[p].channelId, req[p].message.author, ok))
         /\ req' = [req EXCEPT ![p] =
                IF ok THEN [req[p] EXCEPT !.pc = "fanout"]
                ELSE Fail(p, "INTERNAL_SERVER_ERROR")]
    /\ UNCHANGED <<store, last_read, notified, now, reqs>>

\* Where a send goes once both halves of Promise.all (lines 136-143) settled.
AfterFanout(r) ==
    IF ~(r.sent /\ r.read) THEN r
    ELSE IF r.rejected THEN [r EXCEPT !.pc = "failed", !.error = "INTERNAL_SERVER_ERROR"]
    ELSE IF StartsWithShark(r.content) THEN [r EXCEPT !.pc = "bot"]
    ELSE [r EXCEPT !.pc = "done"]

\* Line 137: publish "message sent" to the channel's topic.
SendPublishSent(p) ==
    /\ req[p].op = "send" /\ req[p].pc = "fanout" /\ ~req[p].sent
    /\ \E ok \in BOOLEAN :
         /\ ok \/ CanFail
         /\ faults' = IF ok THEN faults ELSE faults + 1
         /\ published' = Append(published,
                Event("message_sent", req[p].channelId, req[p].message.id,
                      req[p].message.channel_id, req[p].message.author, ok))
         /\ req' = [req EXCEPT ![p] =
                AfterFanout([req[p] EXCEPT !.sent = TRUE,
                                           !.rejected = req[p].rejected \/ ~ok])]
    /\ UNCHANGED <<store, last_read, notified, now, reqs>>

\* Lines 138-142: setLastRead(channel, sender, message.timestamp).
SendSetLastRead(p) ==
    /\ req[p].op = "send" /\ req[p].pc = "fanout" /\ ~req[p].read
    /\ \E ok \in BOOLEAN :
         /\ ok \/ CanFail
         /\ faults' = IF ok THEN faults ELSE faults + 1
         /\ last_read' = IF ok
                THEN [last_read EXCEPT ![<<req[p].channelId, req[p].user>>] =
                         req[p].message.timestamp]
                ELSE last_read
         /\ req' = [req EXCEPT ![p] =
                AfterFanout([req[p] EXCEPT !.read = TRUE,
                                           !.rejected = req[p].rejected \/ ~ok])]
    /\ UNCHANGED <<store, published, notified, now, reqs>>

\* Lines 145-153: the bot-mention notifier, awaited; then return message.
SendBot(p) ==
    /\ req[p].op = "send" /\ req[p].pc = "bot"
    /\ \E ok \in BOOLEAN :
         /\ ok \/ CanFail
         /\ faults' = IF ok THEN faults ELSE faults + 1
         /\ notified' = notified \cup
                {[content |-> req[p].content, channel_id |-> req[p].channelId,
                  user_name |-> req[p].message.author, ok |-> ok]}
         /\ req' = [req EXCEPT ![p] =
                IF ok THEN [req[p] EXCEPT !.pc = "done"]
                ELSE Fail(p, "INTERNAL_SERVER_ERROR")]
    /\ UNCHANGED <<store, last_read, published, now, reqs>>

\* A statement of the transaction body (lines 57-118) rejects: the callback
\* throws, db.transaction rolls back its own (empty) transaction and rethrows.
\* What the earlier statements wrote through db stays.
TxSteps == {"attach", "insert", "reread", "pointer", "dmflag"}

SendReject(p) ==
    /\ req[p].op = "send" /\ req[p].pc \in TxSteps
    /\ CanFail
    /\ faults' = faults + 1
    /\ req' = [req EXCEPT ![p] = Fail(p, "INTERNAL_SERVER_ERROR")]
    /\ UNCHANGED <<store, last_read, published, notified, now, reqs>>

\* ---------------------------------------------------------------- update
\* Variant: the where clause without eq(messages.author_id, ctx.session.user.id).
UpdateMatch_NoAuthor(u, mid, ch) ==
    {m \in messages : m.id = mid /\ m.channel_id = ch}

\* The rows the update of lines 216-227 matches.
UpdateMatch(u, mid, ch) ==
    {m \in messages : m.id = mid /\ m.author_id = u /\ m.channel_id = ch}

\* The values rows.rowsAffected can take: the matched rows whose content the
\* statement changes, or all matched rows when the connection reports found rows.
UpdateAffected(u, mid, ch, content) ==
    {Cardinality({m \in UpdateMatch(u, mid, ch) : m.content # content}),
     Cardinality(UpdateMatch(u, mid, ch))}

\* The error of lines 229-233.
UpdateError == "BAD_REQUEST"

\* Lines 207-233.  contentSchema alone guards the content: send adds its own
\* refine for the empty case, update adds none.
UpdateStart(p, u, mid, ch, content) ==
    /\ Free(p)
    /\ reqs' = reqs + 1
    /\ messages' = {IF m \in UpdateMatch(u, mid, ch)
                    THEN [m EXCEPT !.content = content] ELSE m : m \in messages}
    /\ \E n \in UpdateAffected(u, mid, ch, content) :
         req' = [req EXCEPT ![p] =
            [Idle EXCEPT !.op = "update", !.user = u, !.messageId = mid,
                         !.channelId = ch, !.content = content,
                         !.pc = IF n = 0 THEN "failed" ELSE "upd_pub",
                         !.error = IF n = 0 THEN UpdateError ELSE "none"]]
    /\ UNCHANGED <<attachments, nextId, nextAttId, last_message_id, dm_open,
                   last_read, published, notified, now, faults>>

\* Lines 235-239.
UpdatePublish(p) ==
    /\ req[p].op = "update" /\ req[p].pc = "upd_pub"
    /\ published' = Append(published,
           Event("message_updated", req[p].channelId, req[p].messageId,
                 req[p].channelId, NoUser, TRUE))
    /\ req' = [req EXCEPT ![p].pc = "done"]
    /\ UNCHANGED <<store, last_read, notified, now, reqs, faults>>

\* ---------------------------------------------------------------- delete
\* checkDeleteMessage, lines 318-336: the message, then the author test.
DeleteStart(p, u, mid) ==
    /\ Free(p)
    /\ reqs' = reqs + 1
    /\ req' = [req EXCEPT ![p] =
           LET r0 == [Idle EXCEPT !.op = "delete", !.user = u, !.messageId = mid]
           IN IF ~HasRow(mid) THEN [r0 EXCEPT !.pc = "failed", !.error = "NOT_FOUND"]
              ELSE [r0 EXCEPT !.message = [NoMessage EXCEPT
                                   !.id = mid,
                                   !.author_id = Row(mid).author_id,
                                   !.channel_id = Row(mid).channel_id],
                              !.pc = IF Row(mid).author_id = u
                                     THEN "del_row" ELSE "del_group"]]
    /\ UNCHANGED <<store, last_read, published, notified, now, faults>>

\* The rows "select owner_id from groups limit 1" can return (lines 338-342):
\* the where clause is commented out, so any row of the table.
GroupRows == GroupChannels

\* checkDeleteMessage, lines 338-351.
DeleteGroup(p) ==
    /\ req[p].op = "delete" /\ req[p].pc = "del_group"
    /\ \E g \in GroupRows :
         req' = [req EXCEPT ![p] =
            IF GroupOwner[g] = req[p].user THEN [req[p] EXCEPT !.pc = "del_row"]
            ELSE Fail(p, "BAD_REQUEST")]
    /\ UNCHANGED <<store, last_read, published, notified, now, reqs, faults>>

\* Variant: the delete also clears a last-message pointer that references the row.
DeleteRow_ClearPointer(p) ==
    /\ req[p].op = "delete" /\ req[p].pc = "del_row"
    /\ messages' = {m \in messages : m.id # req[p].messageId}
    /\ last_message_id' = [ch \in Channels |->
           IF last_message_id[ch] = req[p].messageId THEN 0 ELSE last_message_id[ch]]
    /\ req' = [req EXCEPT ![p].pc = "del_pub"]
    /\ UNCHANGED <<attachments, nextId, nextAttId, dm_open,
                   last_read, published, notified, now, reqs, faults>>

\* Line 253.
DeleteRow(p) ==
    /\ req[p].op = "delete" /\ req[p].pc = "del_row"
    /\ messages' = {m \in messages : m.id # req[p].messageId}
    /\ req' = [req EXCEPT ![p].pc = "del_pub"]
    /\ UNCHANGED <<attachments, nextId, nextAttId, last_message_id, dm_open,
                   last_read, published, notified, now, reqs, faults>>

\* Lines 254-257.
DeletePublish(p) ==
    /\ req[p].op = "delete" /\ req[p].pc = "del_pub"
    /\ published' = Append(published,
           Event("message_deleted", req[p].message.channel_id, req[p].messageId,
                 req[p].message.channel_id, NoUser, TRUE))
    /\ req' = [req EXCEPT ![p].pc = "done"]
    /\ UNCHANGED <<store, last_read, notified, now, reqs, faults>>

\* ------------------------------------------------- read, checkout, type
\* Lines 259-267: setLastRead(channel, user, now); no permission check.
Read(p, u, ch) ==
    /\ Free(p)
    /\ reqs' = reqs + 1
    /\ last_read' = [last_read EXCEPT ![<<ch, u>>] = now]
    /\ req' = [req EXCEPT ![p] =
           [Idle EXCEPT !.op = "read", !.user = u, !.channelId = ch, !.pc = "done"]]
    /\ UNCHANGED <<store, published, notified, now, faults>>

\* Line 275: getLastRead; no permission check.
CheckoutStart(p, u, ch) ==
    /\ Free(p)
    /\ reqs' = reqs + 1
    /\ req' = [req EXCEPT ![p] =
           [Idle EXCEPT !.op = "checkout", !.user = u, !.channelId = ch,
                        !.old = last_read[<<ch, u>>], !.pc = "co_set"]]
    /\ UNCHANGED <<store, last_read, published, notified, now, faults>>

\* Lines 277-283: setLastRead, then return the value read before.
CheckoutSet(p) ==
    /\ req[p].op = "checkout" /\ req[p].pc = "co_set"
    /\ last_read' = [last_read EXCEPT ![<<req[p].channelId, req[p].user>>] = now]
    /\ req' = [req EXCEPT ![p].pc = "done"]
    /\ UNCHANGED <<store, published, notified, now, reqs, faults>>

\* Lines 291-302: the caller's profile row; no permission check.
TypeStart(p, u, ch) ==
    /\ Free(p)
    /\ reqs' = reqs + 1
    /\ req' = [req EXCEPT ![p] =
           LET r0 == [Idle EXCEPT !.op = "type", !.user = u, !.channelId = ch]
           IN IF u \notin UserRows
              THEN [r0 EXCEPT !.pc = "failed", !.error = "BAD_REQUEST"]
              ELSE [r0 EXCEPT !.pc = "type_pub"]]
    /\ UNCHANGED <<store, last_read, published, notified, now, faults>>

\* Lines 304-306.
TypePublish(p) ==
    /\ req[p].op = "type" /\ req[p].pc = "type_pub"
    /\ published' = Append(published, Event("typing", req[p].channelId, 0,
                                             req[p].channelId, req[p].user, TRUE))
    /\ req' = [req EXCEPT ![p].pc = "done"]
    /\ UNCHANGED <<store, last_read, notified, now, reqs, faults>>

\* -------------------------------------------------------------- messages
Min(a, b) == IF a < b THEN a ELSE b

\* Variant: lte / gte in place of lt / gt.
Matches_Inclusive(ch, cursorType, cursor) ==
    {m \in messages :
        /\ m.channel_id = ch
        /\ (cursor # -1 /\ cursorType = "after") => m.timestamp >= cursor
        /\ (cursor # -1 /\ cursorType = "before") => m.timestamp <= cursor}

\* The where clause of lines 180-190; cursor -1: no cursor given.
Matches(ch, cursorType, cursor) ==
    {m \in messages :
        /\ m.channel_id = ch
        /\ (cursor # -1 /\ cursorType = "after") => m.timestamp > cursor
        /\ (cursor # -1 /\ cursorType = "before") => m.timestamp < cursor}

\* orderBy(desc(messages.timestamp)): every order of the rows with timestamps
\* descending; rows of one timestamp come in any order.
Orderings(S) ==
    {s \in [1..Cardinality(S) -> S] :
        /\ \A i, j \in 1..Cardinality(S) : i # j => s[i] # s[j]
        /\ \A i, j \in 1..Cardinality(S) : i < j => s[i].timestamp >= s[j].timestamp}

\* .limit(count)
Limit(s, n) == [i \in 1..Min(n, Len(s)) |-> s[i]]

\* Lines 155-166: the permission check, count = Math.min(input.count, 50).
MessagesStart(p, u, ch, count, cursorType, cursor) ==
    /\ Free(p)
    /\ reqs' = reqs + 1
    /\ req' = [req EXCEPT ![p] =
           LET r0 == [Idle EXCEPT !.op = "messages", !.user = u, !.channelId = ch,
                                  !.count = Min(count, MaxCount),
                                  !.cursorType = cursorType, !.cursor = cursor]
               perm == checkChannelPermissions(ch, u)
           IN IF perm \in {"NOT_FOUND", "FORBIDDEN"}
              THEN [r0 EXCEPT !.pc = "failed", !.error = perm]
              ELSE [r0 EXCEPT !.type = perm, !.pc = "query"]]
    /\ UNCHANGED <<store, last_read, published, notified, now, faults>>

\* Lines 171-205: the select, hydrated, newest first, limited.
MessagesQuery(p) ==
    /\ req[p].op = "messages" /\ req[p].pc = "query"
    /\ \E s \in Orderings(Matches(req[p].channelId, req[p].cursorType, req[p].cursor)) :
         req' = [req EXCEPT ![p].result =
                    Limit([i \in 1..Len(s) |-> Hydrate(s[i])], req[p].count),
                 ![p].pc = "done"]
    /\ UNCHANGED <<store, last_read, published, notified, now, reqs, faults>>

\* ------------------------------------------------------- specifications
\* Message ids a request may name: those assigned so far and the next one.
Ids == 1..nextId
Counts == {0, 1, 2, MaxCount}
Cursors == -1..(MaxClock + 1)

\* The send pipeline under concurrency and failures.
SendSteps(p) ==
    \/ SendAttach(p) \/ SendInsert(p) \/ SendReread(p) \/ SendPointer(p)
    \/ SendDmFlag(p) \/ SendOpenDm(p) \/ SendPublishSent(p) \/ SendSetLastRead(p)

\* Requests are taken while the budget lasts.
Budget == reqs < MaxReqs

\* (content, attachment supplied) of the sends of Spec.
Payloads == {<<Empty, FALSE>>, <<Hi, FALSE>>, <<Hi, TRUE>>}

Next ==
    \/ \E p \in Procs : SendSteps(p)
    \/ \E p \in Procs : SendReject(p)
    \/ /\ Budget
       /\ \E p \in Procs, u \in {"a", "b", "c"}, c \in Payloads :
             SendStart(p, u, "dm", c[1], c[2], 0)

Spec == Init /\ [][Next]_vars

\* Plain sends (text, no attachment) next to update, delete, read, checkout
\* and type by every identity.
PlainSendSteps(p) ==
    \/ SendInsert(p) \/ SendReread(p) \/ SendPointer(p)
    \/ SendDmFlag(p) \/ SendOpenDm(p) \/ SendPublishSent(p) \/ SendSetLastRead(p)

\* Sends and deletes by every user with a profile row, in every channel.
NextDelete ==
    \/ \E p \in Procs : PlainSendSteps(p)
    \/ \E p \in Procs : DeleteGroup(p) \/ DeleteRow(p) \/ DeletePublish(p)
    \/ /\ Budget
       /\ \E p \in Procs, u \in UserRows, ch \in Channels :
             SendStart(p, u, ch, Hi, FALSE, 0)
    \/ /\ Budget
       /\ \E p \in Procs, u \in UserRows, mid \in Ids : DeleteStart(p, u, mid)

SpecDelete == Init /\ [][NextDelete]_vars

\* Sends and updates by a and c in the channels "dm" and "g1".
NextUpdate ==
    \/ \E p \in Procs : PlainSendSteps(p)
    \/ \E p \in Procs : UpdatePublish(p)
    \/ /\ Budget
       /\ \E p \in Procs, u \in {"a", "c"}, ch \in {"dm", "g1"} :
             SendStart(p, u, ch, Hi, FALSE, 0)
    \/ /\ Budget
       /\ \E p \in Procs, u \in {"a", "c"}, mid \in Ids, ch \in {"dm", "g1"},
             c \in {Empty, Shark} : UpdateStart(p, u, mid, ch, c)

SpecUpdate == Init /\ [][NextUpdate]_vars

\* Sends into "dm" next to read, checkout and type by a member, a non-member
\* and an identity without profile row, on "dm" and on a channel id that names
\* no channel.
NextRead ==
    \/ Tick
    \/ \E p \in Procs : PlainSendSteps(p)
    \/ \E p \in Procs : CheckoutSet(p) \/ TypePublish(p)
    \/ /\ Budget
       /\ \E p \in Procs, u \in {"a", "b"} : SendStart(p, u, "dm", Hi, FALSE, 0)
    \/ /\ Budget
       /\ \E p \in Procs, u \in {"a", "c", "x"}, ch \in {"dm", "zz"} : Read(p, u, ch)
    \/ /\ Budget
       /\ \E p \in Procs, u \in {"a", "c", "x"}, ch \in {"dm", "zz"} :
             CheckoutStart(p, u, ch)
    \/ /\ Budget
       /\ \E p \in Procs, u \in {"a", "c", "x"}, ch \in {"dm", "zz"} :
             TypeStart(p, u, ch)

SpecRead == Init /\ [][NextRead]_vars

\* Requests of one behaviour of SpecHist.
MaxHistReqs == 4

\* History pages, fetched by a, over the tables that sends by a into "dm" and
\* "g1" build while the clock runs: requests one after the other, all on slot p1.
NextHist ==
    \/ Tick
    \/ \E p \in Procs : PlainSendSteps(p)
    \/ \E p \in Procs : MessagesQuery(p)
    \/ /\ reqs < MaxHistReqs - 1
       /\ \E ch \in {"dm", "g1"} : SendStart("p1", "a", ch, Hi, FALSE, 0)
    \/ /\ reqs < MaxHistReqs
       /\ \E ch \in {"dm", "g1"}, n \in Counts, t \in {"before", "after"},
             k \in Cursors : MessagesStart("p1", "a", ch, n, t, k)

\* No call is rejected in SpecHist: the failure budget starts used up.
InitHist ==
    /\ messages = {}
    /\ attachments = {}
    /\ nextId = 1
    /\ nextAttId = 1
    /\ last_message_id = [ch \in Channels |-> 0]
    /\ dm_open = [ch \in DmChannels |-> FALSE]
    /\ last_read = [k \in ChannelIds \X Identities |-> -1]
    /\ published = <<>>
    /\ notified = {}
    /\ now = 0
    /\ req = [p \in Procs |-> Idle]
    /\ reqs = 0
    /\ faults = MaxFaults

SpecHist == InitHist /\ [][NextHist]_vars

\* Sends by the two participants of "dm", plain and with the bot mention, with
\* the notifier step; a statement of the transaction body never rejects here.
NextFanout ==
    \/ \E p \in Procs : PlainSendSteps(p)
    \/ \E p \in Procs : SendBot(p)
    \/ /\ Budget
       /\ \E p \in Procs, u \in {"a", "b"}, c \in {Hi, Shark} :
             SendStart(p, u, "dm", c, FALSE, 0)

\* A handler goes on when the call it awaits has settled.
SpecFanout ==
    /\ Init /\ [][NextFanout]_vars
    /\ \A p \in Procs : WF_vars(PlainSendSteps(p) \/ SendBot(p))

\* Requests of one behaviour of SpecReply.
MaxReplyReqs == 4

\* The send pipeline of a group channel: no open flag, no "channel opened".
GroupSendSteps(p) ==
    \/ SendInsert(p) \/ SendReread(p) \/ SendPointer(p)
    \/ SendPublishSent(p) \/ SendSetLastRead(p)

\* A thread in "g1": a sends, plain or in reply to message 1, deletes message 1
\* and fetches the history.  Message 1 may not exist yet, exist, or be deleted
\* meanwhile.
NextReply ==
    \/ \E p \in Procs : GroupSendSteps(p)
    \/ \E p \in Procs : DeleteRow(p) \/ DeletePublish(p)
    \/ \E p \in Procs : MessagesQuery(p)
    \/ /\ reqs < MaxReplyReqs
       /\ \E p \in Procs, r \in {0, 1} : SendStart(p, "a", "g1", Hi, FALSE, r)
    \/ /\ reqs < MaxReplyReqs
       /\ \E p \in Procs : DeleteStart(p, "a", 1)
    \/ /\ reqs < MaxReplyReqs
       /\ \E p \in Procs : MessagesStart(p, "a", "g1", MaxCount, "before", -1)

SpecReply == InitHist /\ [][NextReply]_vars

\* A reply across channels: a sends into "dm"; c, who is no member of "dm",
\* sends into "g1" in reply to message 1 and fetches the history of "g1".
NextLeak ==
    \/ \E p \in Procs : PlainSendSteps(p)
    \/ \E p \in Procs : MessagesQuery(p)
    \/ /\ Budget
       /\ \E p \in Procs, i \in {<<"a", "dm", 0>>, <<"c", "g1", 1>>} :
             SendStart(p, i[1], i[2], Hi, FALSE, i[3])
    \/ /\ Budget
       /\ \E p \in Procs : MessagesStart(p, "c", "g1", MaxCount, "before", -1)

SpecLeak == Init /\ [][NextLeak]_vars

\* Messages with an attachment, sent into "g1" and deleted by their author a.
NextAttach ==
    \/ \E p \in Procs : SendAttach(p) \/ GroupSendSteps(p)
    \/ \E p \in Procs : DeleteRow(p) \/ DeletePublish(p)
    \/ /\ Budget
       /\ \E p \in Procs, c \in {Empty, Hi} : SendStart(p, "a", "g1", c, TRUE, 0)
    \/ /\ Budget
       /\ \E p \in Procs, mid \in Ids : DeleteStart(p, "a", mid)

SpecAttach == InitHist /\ [][NextAttach]_vars

\* ------------------------------------------------------------ properties
EventIdx(type) == {i \in 1..Len(published) : published[i].type = type}

\* A send that has not left the transaction body of lines 56-126.
InTx(r) == r.op = "send" /\ r.pc \in TxSteps

\* A send whose transaction body threw.
FailedInTx(r) == r.op = "send" /\ r.pc = "failed" /\ ~r.committed /\ r.type # "none"

\* C1: the writes of a send become visible together: while the send is still
\* inside its atomic unit, no reader sees its attachment row or its message row
\* (so never the attachment without the message, nor the message without the
\* pointer and open-flag updates of that send).
C1_SendAtomic ==
    \A p \in Procs :
        InTx(req[p]) =>
            /\ req[p].att \notin attachments
            /\ ~HasRow(req[p].message_id)

\* C2: a send whose atomic unit failed leaves the store as it was: no attachment
\* row, no message row, the pointer not moved to its message, nothing published.
C2_FailedSendPersistsNothing ==
    \A p \in Procs :
        FailedInTx(req[p]) =>
            /\ req[p].att \notin attachments
            /\ ~HasRow(req[p].message_id)
            /\ \A ch \in Channels :
                 req[p].message_id # 0 => last_message_id[ch] # req[p].message_id
            /\ \A i \in 1..Len(published) :
                 req[p].message_id # 0 => published[i].id # req[p].message_id

\* Sends into d that made the false -> true transition and have not yet
\* issued their "channel opened" publish.
Openers(d) ==
    {p \in Procs : req[p].op = "send" /\ req[p].channelId = d
                   /\ req[p].is_new_dm /\ req[p].pc = "open_dm"}

OpenedEvents(d) == {i \in EventIdx("open_dm") : published[i].channel_id = d}

\* C3: a direct-message channel that starts closed is opened exactly once under
\* concurrent sends: while the flag is false no send has is_new_dm and no
\* "channel opened" publish was issued; once it is true exactly one send made the
\* transition and exactly one "channel opened" publish is issued for it (pending
\* in that send, or in the log), addressed to the other participant; at most one
\* live send reports is_new_dm; and the flag never returns to false.
C3_DmOpenedOnce ==
    /\ [](\A d \in DmChannels :
            /\ ~dm_open[d] => Openers(d) = {} /\ OpenedEvents(d) = {}
            /\ dm_open[d] => Cardinality(Openers(d)) + Cardinality(OpenedEvents(d)) = 1
            /\ Cardinality({p \in Procs : req[p].op = "send" /\ req[p].channelId = d
                                          /\ req[p].is_new_dm}) <= 1
            /\ \A i \in OpenedEvents(d) :
                 /\ published[i].to \in Members(d)
                 /\ published[i].user \in Members(d)
                 /\ published[i].to # published[i].user)
    /\ [][\A d \in DmChannels : dm_open[d] => dm_open'[d]]_vars

\* C3 witness: two sends into the closed channel have both returned, one with
\* is_new_dm and one without, and one "channel opened" publish was issued.
C3_Witness ==
    /\ req["p1"].op = "send" /\ req["p2"].op = "send"
    /\ req["p1"].pc = "done" /\ req["p2"].pc = "done"
    /\ req["p1"].channelId = "dm" /\ req["p2"].channelId = "dm"
    /\ req["p1"].user # req["p2"].user
    /\ req["p1"].is_new_dm # req["p2"].is_new_dm
    /\ Cardinality(OpenedEvents("dm")) = 1

\* The publish call a step appended, if it appended one.
Published(type) ==
    /\ Len(published') = Len(published) + 1
    /\ published'[Len(published')].type = type

\* C4: "channel opened" and "message sent" are published only by a send whose
\* transaction has returned, for the message that send persisted (a delete
\* running beside it may have removed the row since); the publish,
\* accepted or rejected, leaves the tables as they are; and no publish is issued
\* twice for one message (no retry).
C4_PublishAfterCommit ==
    /\ [][(Published("open_dm") \/ Published("message_sent")) =>
            /\ \E p \in Procs :
                 /\ req[p].op = "send" /\ req[p].committed
                 /\ req'[p] # req[p]
                 /\ req[p].message.id = req[p].message_id
                 /\ req[p].message_id \in 1..(nextId - 1)
                 /\ last_message_id[req[p].channelId] # 0
                 /\ published'[Len(published')].id \in {0, req[p].message.id}
                 /\ req[p].type = "dm" => dm_open[req[p].channelId]
            /\ UNCHANGED store]_vars
    /\ [](\A i, j \in EventIdx("message_sent") :
            published[i].id = published[j].id => i = j)
    /\ [](\A i, j \in EventIdx("open_dm") :
            published[i].channel_id = published[j].channel_id => i = j)
    /\ [](\A p \in Procs :
            (req[p].op = "send" /\ ~req[p].committed) =>
                \A i \in EventIdx("message_sent") : published[i].id # req[p].message_id)

\* C4 witness: a "message sent" publish was rejected; the message row, the
\* channel pointer and the open flag it committed are in place.
C4_Witness ==
    \E i \in EventIdx("message_sent") :
        /\ ~published[i].ok
        /\ HasRow(published[i].id)
        /\ last_message_id[published[i].channel_id] = published[i].id
        /\ dm_open[published[i].channel_id]
        /\ \E p \in Procs : req[p].pc = "failed" /\ req[p].message.id = published[i].id

\* The step in which slot p takes a send request.
TakesSend(p) == Answered(p) /\ req'[p] # req[p] /\ req'[p].op = "send"

\* C7: a well-formed send by an identity that is not a member of the channel
\* fails with FORBIDDEN in the step that takes it, before any write: tables,
\* last-read cursors and the publish log are unchanged, and the request never
\* gets an attachment or a message id.
C7_NonMemberSendRejected ==
    /\ [][\A p \in Procs :
            (/\ TakesSend(p)
             /\ req'[p].channelId \in Channels
             /\ req'[p].user \notin Members(req'[p].channelId)
             /\ refine(req'[p].content, req'[p].attachment))
            => /\ req'[p].pc = "failed" /\ req'[p].error = "FORBIDDEN"
               /\ UNCHANGED <<store, last_read, published, notified>>]_vars
    /\ [](\A p \in Procs :
            (req[p].op = "send" /\ req[p].user \notin Members(req[p].channelId))
            => req[p].pc = "failed" /\ req[p].att = 0 /\ req[p].message_id = 0)

C7_Witness ==
    \E p \in Procs :
        /\ req[p].op = "send" /\ req[p].channelId \in Channels
        /\ req[p].user \notin Members(req[p].channelId)
        /\ refine(req[p].content, req[p].attachment)
        /\ req[p].pc = "failed" /\ req[p].error = "FORBIDDEN"
        /\ messages # {}

\* C9: a send with empty content and no attachment fails with BAD_REQUEST in
\* the step that takes it; it writes no row and issues no publish, then or later.
C9_EmptySendRejected ==
    /\ [][\A p \in Procs :
            (TakesSend(p) /\ Len(req'[p].content) = 0 /\ ~req'[p].attachment)
            => /\ req'[p].pc = "failed" /\ req'[p].error = "BAD_REQUEST"
               /\ UNCHANGED <<store, last_read, published, notified>>]_vars
    /\ [](\A p \in Procs :
            (req[p].op = "send" /\ Len(req[p].content) = 0 /\ ~req[p].attachment)
            => req[p].pc = "failed" /\ req[p].att = 0 /\ req[p].message_id = 0)

C9_Witness ==
    \E p \in Procs :
        /\ req[p].op = "send" /\ Len(req[p].content) = 0 /\ ~req[p].attachment
        /\ req[p].user \in Members(req[p].channelId)
        /\ req[p].pc = "failed" /\ req[p].error = "BAD_REQUEST"

\* A delete that passed checkDeleteMessage.
DeleteAllowed(r) == r.op = "delete" /\ r.pc \in {"del_row", "del_pub", "done"}

\* C5: a delete passes the permission check (and so removes the row and
\* publishes "message deleted") only for the author of the message or the owner
\* of the group channel the message is in; in a direct-message channel only
\* for the author.
C5_DeleteOnlyAuthorOrOwner ==
    \A p \in Procs :
        DeleteAllowed(req[p]) =>
            \/ req[p].user = req[p].message.author_id
            \/ /\ req[p].message.channel_id \in GroupChannels
               /\ GroupOwner[req[p].message.channel_id] = req[p].user

\* The step in which slot p takes an update request.
TakesUpdate(p) == Answered(p) /\ req'[p] # req[p] /\ req'[p].op = "update"

\* No message with this id, channel and author.
NoOwnMessage(u, mid, ch) ==
    ~\E m \in messages : m.id = mid /\ m.channel_id = ch /\ m.author_id = u

UpdateRejectedWith(code) ==
    \A p \in Procs :
        (TakesUpdate(p) /\ NoOwnMessage(req'[p].user, req'[p].messageId, req'[p].channelId))
        => /\ req'[p].pc = "failed" /\ req'[p].error = code
           /\ UNCHANGED <<store, published>>

Outsider(r) ==
    /\ r.op \in {"read", "checkout", "type"}
    /\ r.user \notin Members(r.channelId)

\* C8: read, checkout and type are gated by membership: called by a non-member
\* (or on a channel that does not exist) they fail with Forbidden (NotFound),
\* leave the caller's cursor for that channel absent and publish no typing event.
C8_ReadOpsGated ==
    /\ \A p \in Procs :
         Outsider(req[p]) =>
            /\ req[p].pc = "failed"
            /\ req[p].error = IF req[p].channelId \in Channels
                              THEN "FORBIDDEN" ELSE "NOT_FOUND"
    /\ \A ch \in ChannelIds, u \in Identities :
         u \notin Members(ch) => last_read[<<ch, u>>] = -1
    /\ \A i \in EventIdx("typing") : published[i].user \in Members(published[i].to)

\* The rows of the table a history request r asks for.
Wanted(r) ==
    {m \in messages :
        /\ m.channel_id = r.channelId
        /\ r.cursor = -1
           \/ (r.cursorType = "before" /\ m.timestamp < r.cursor)
           \/ (r.cursorType = "after" /\ m.timestamp > r.cursor)}

\* res is a newest-first page of at most r.count rows of Wanted(r): no wanted
\* row left out is newer than a row of the page.
IsPage(r, res) ==
    /\ \A i \in 1..Len(res) :
         \E m \in Wanted(r) : m.id = res[i].id /\ m.timestamp = res[i].timestamp
                              /\ m.channel_id = res[i].channel_id
    /\ \A i, j \in 1..Len(res) : i < j =>
         res[i].timestamp >= res[j].timestamp /\ res[i].id # res[j].id
    /\ Len(res) <= r.count
    /\ Len(res) = Min(r.count, Cardinality(Wanted(r)))
    /\ \A m \in Wanted(r) :
         (\A i \in 1..Len(res) : res[i].id # m.id)
         => \A i \in 1..Len(res) : res[i].timestamp >= m.timestamp

\* C10: the page a history call returns holds only rows of the channel that
\* satisfy the cursor (strictly before, strictly after, or any when no cursor
\* is given), newest first, at most count of them, and they are the count
\* newest such rows of the table the select read.
C10_HistoryPage ==
    [][\A p \in Procs :
         (req[p].op = "messages" /\ req[p].pc = "query" /\ req'[p].pc = "done")
         => /\ req'[p].count \in 0..MaxCount
            /\ IsPage(req[p], req'[p].result)]_vars

\* C10 witness: a page of one row cut by count out of two rows before the
\* cursor, with a third row of the channel at or after the cursor.
C10_Witness ==
    \E p \in Procs :
        /\ req[p].op = "messages" /\ req[p].pc = "done"
        /\ req[p].cursorType = "before" /\ req[p].cursor # -1
        /\ req[p].count = 1 /\ Len(req[p].result) = 1
        /\ Cardinality(Wanted(req[p])) = 2
        /\ \E m \in messages : m.channel_id = req[p].channelId
                               /\ m.timestamp >= req[p].cursor

\* ------------------------------------------------ last-read cursor claims
\* The step in which a checkout of slot p writes the cursor and returns.
CheckoutReturns(p) ==
    req[p].op = "checkout" /\ req[p].pc = "co_set" /\ req'[p].pc = "done"

\* C11: a checkout by a member returns the cursor value stored immediately
\* before its own write (no other write to that cursor falls between its read
\* and its write), and after it the cursor holds the timestamp it wrote.
C11_CheckoutAtomic ==
    [][\A p \in Procs :
         (CheckoutReturns(p) /\ req[p].user \in Members(req[p].channelId))
         => /\ req'[p].old = last_read[<<req[p].channelId, req[p].user>>]
            /\ last_read'[<<req[p].channelId, req[p].user>>] = now]_vars

\* The slots holding a send of u into ch.
SendsOf(u, ch) ==
    {p \in Procs : req[p].op = "send" /\ req[p].user = u /\ req[p].channelId = ch}

\* C12: once the sends of a sender into a channel have all returned their
\* message, the sender's cursor for the channel is at or past the timestamp of
\* every message of that sender in the channel.
C12_SenderCursorCoversOwn ==
    \A ch \in Channels, u \in UserRows :
        (SendsOf(u, ch) # {} /\ \A p \in SendsOf(u, ch) : req[p].pc = "done")
        => \A m \in messages :
             (m.author_id = u /\ m.channel_id = ch)
             => last_read[<<ch, u>>] >= m.timestamp

\* ---------------------------------------------------- post-commit claims
\* C13: a failure of the bot-mention notifier does not fail the send: a send
\* that committed and whose "message sent" publish and cursor write were both
\* accepted returns its message.
C13_BotFailureKeepsSend ==
    \A p \in Procs :
        (/\ req[p].op = "send" /\ req[p].committed
         /\ req[p].sent /\ req[p].read /\ ~req[p].rejected)
        => req[p].pc # "failed"

\* Ids the store assigns within the request budget.
MessageIds == 1..(MaxReqs + 1)

\* C20: every send whose transaction returned is eventually followed by an
\* attempt to publish "message sent" for its message, also when it opened the
\* direct-message channel and the "channel opened" publish is rejected.
C20_CommittedSendFansOut ==
    \A id \in MessageIds :
        (\E p \in Procs : req[p].op = "send" /\ req[p].committed
                          /\ req[p].message.id = id)
        ~> (\E i \in EventIdx("message_sent") : published[i].id = id)

\* ------------------------------------------------------ content invariant
\* C14: every message row with empty content has an attachment.
C14_EmptyContentHasAttachment ==
    \A m \in messages : Len(m.content) = 0 => m.attachment_id # 0

\* ------------------------------------------------------------ reply claims
\* The step in which the send of slot p re-reads its row.
Rereads(p) == req[p].op = "send" /\ req[p].pc = "reread" /\ req'[p] # req[p]

\* The hydrated row m carries no reply snapshot.
NullReply(m) == m.reply_message = <<>> /\ m.reply_user = NoUser

\* C15: a missing parent never fails a send or a history call.  The re-read of
\* a send succeeds whenever its own row and author are there, whatever became of
\* the parent, and returns null reply fields when the parent row is absent; a
\* history call always returns, with null reply fields on every row whose
\* parent is absent.
C15_MissingParentIsNull ==
    /\ [][\A p \in Procs :
            Rereads(p) =>
               /\ (/\ HasRow(req[p].message_id)
                   /\ Row(req[p].message_id).author_id \in UserRows)
                  => req'[p].pc = "pointer"
               /\ (req'[p].pc = "pointer" /\ ~HasRow(req[p].reply))
                  => NullReply(req'[p].message)]_vars
    /\ [][\A p \in Procs :
            (req[p].op = "messages" /\ req[p].pc = "query" /\ req'[p] # req[p])
            => /\ req'[p].pc = "done"
               /\ \A i \in 1..Len(req'[p].result) :
                    ~HasRow(req'[p].result[i].reply_id)
                    => NullReply(req'[p].result[i])]_vars

\* C15 witness: message 1 was deleted; a send in reply to it, handled beside the
\* delete, returned its message with null reply fields, and a history call that
\* followed returned that child, again with null reply fields.
C15_Witness ==
    /\ \E i \in EventIdx("message_deleted") : published[i].id = 1
    /\ req["p2"].op = "send" /\ req["p2"].pc = "done"
    /\ req["p2"].reply = 1 /\ req["p2"].message.id # 1
    /\ NullReply(req["p2"].message)
    /\ req["p1"].op = "messages" /\ req["p1"].pc = "done"
    /\ \E i \in 1..Len(req["p1"].result) :
         /\ req["p1"].result[i].id = req["p2"].message.id
         /\ req["p1"].result[i].reply_id = 1
         /\ NullReply(req["p1"].result[i])

\* C19: the reply snapshot a send or a history call returns holds the parent's
\* content only when the parent is a message of the child's channel, so only of
\* a channel the caller is a member of.
C19_ReplyWithinChannel ==
    /\ [][\A p \in Procs :
            (Rereads(p) /\ req'[p].pc = "pointer"
                        /\ req'[p].message.reply_message # <<>>)
            => /\ Row(req[p].reply).channel_id = req[p].channelId
               /\ req[p].user \in Members(Row(req[p].reply).channel_id)]_vars
    /\ [][\A p \in Procs :
            (req[p].op = "messages" /\ req[p].pc = "query" /\ req'[p].pc = "done")
            => \A i \in 1..Len(req'[p].result) :
                 req'[p].result[i].reply_message # <<>>
                 => Row(req'[p].result[i].reply_id).channel_id = req[p].channelId]_vars

\* ------------------------------------------------------ attachment claims
\* The message rows that reference attachment a.
Owners(a) == {m \in messages : m.attachment_id = a}

\* C16: every attachment row is referenced by exactly one message row (leaving
\* aside the attachment a send has bound and is about to insert its message for).
C16_AttachmentHasOneOwner ==
    \A a \in attachments :
        \/ \E p \in Procs : req[p].op = "send" /\ req[p].pc = "insert" /\ req[p].att = a
        \/ Cardinality(Owners(a)) = 1

\* ----------------------------------------------------------- delete claims
\* The caller of delete r is the author of the message or owns its group.
AuthorOrOwner(r) ==
    \/ r.user = r.message.author_id
    \/ /\ r.message.channel_id \in GroupChannels
       /\ GroupOwner[r.message.channel_id] = r.user

\* C17: a delete of an existing message by its author or by the owner of its
\* group channel is not refused.
C17_AuthorOrOwnerDeletes ==
    \A p \in Procs :
        (req[p].op = "delete" /\ req[p].message.id # 0 /\ AuthorOrOwner(req[p]))
        => req[p].pc # "failed"

\* A step of the delete request of slot p.
DeleteStep(p) == req'[p] # req[p] /\ req'[p].op = "delete"

\* C18: the steps of a delete change nothing in the store but the one message
\* row: the row delete removes exactly the row with the given id, and no step
\* touches another message row, the attachments, a last-message pointer (also
\* one that references the removed row), an open flag or a last-read cursor.
C18_DeleteFrame ==
    [][\A p \in Procs :
         DeleteStep(p) =>
            /\ messages' = IF req[p].op = "delete" /\ req[p].pc = "del_row"
                           THEN {m \in messages : m.id # req[p].messageId}
                           ELSE messages
            /\ UNCHANGED <<attachments, nextId, nextAttId, last_message_id,
                           dm_open, last_read>>]_vars

\* C18 witness: a delete has removed the message the pointer of its channel
\* references while another message row is in the channel; the pointer still
\* holds the removed id, the other row is there as it was sent, and the
\* author's cursor is still set.
C18_Witness ==
    \E p \in Procs :
        /\ req[p].op = "delete" /\ req[p].pc = "done"
        /\ ~HasRow(req[p].messageId)
        /\ last_message_id[req[p].message.channel_id] = req[p].messageId
        /\ \E m \in messages : /\ m.channel_id = req[p].message.channel_id
                                /\ m.content = Hi /\ m.author_id = req[p].user
        /\ last_read[<<req[p].message.channel_id, req[p].message.author_id>>] # -1

====
